---- MODULE Spec2Model ----
(***************************************************************************)
(* A model of sepfinder.py: the per-conversation wizard (start, on_text,   *)
(* show_firmware_menu) and the build-manifest resolution                   *)
(* (pzb_buildmanifest) it drives.                                          *)
(*                                                                         *)
(* Python strings are sequences of one-character strings, so that          *)
(* startswith, endswith, lower, split, join and html.escape are computed   *)
(* as Python computes them.  A Python dict is a function whose DOMAIN is   *)
(* the set of its keys.                                                    *)
(***************************************************************************)
EXTENDS Integers, Sequences, FiniteSets, TLC

(* ------------------------------------------------------------------ *)
(* Bounds of the model                                                 *)
(* ------------------------------------------------------------------ *)

\* Number of conversations (each has its own ctx.user_data).
NumConvs == 1

\* Largest number of times p.poll() returns None before pzb exits.
MaxPolls == 1

Convs == 1..NumConvs

(* ------------------------------------------------------------------ *)
(* Python string operations                                            *)
(* ------------------------------------------------------------------ *)

UpperChars == <<"A","B","C","D","E","F","G","H","I","J","K","L","M",
                "N","O","P","Q","R","S","T","U","V","W","X","Y","Z">>
LowerChars == <<"a","b","c","d","e","f","g","h","i","j","k","l","m",
                "n","o","p","q","r","s","t","u","v","w","x","y","z">>

\* str.lower() on one character.
lower_char(c) ==
    IF \E i \in DOMAIN UpperChars : UpperChars[i] = c
    THEN LowerChars[CHOOSE i \in DOMAIN UpperChars : UpperChars[i] = c]
    ELSE c

\* str.lower()
lower(s) == [i \in 1..Len(s) |-> lower_char(s[i])]

\* str.startswith(prefix)
startswith(s, prefix) ==
    /\ Len(prefix) <= Len(s)
    /\ SubSeq(s, 1, Len(prefix)) = prefix

\* str.endswith(suffix)
endswith(s, suffix) ==
    /\ Len(suffix) <= Len(s)
    /\ SubSeq(s, Len(s) - Len(suffix) + 1, Len(s)) = suffix

\* html.escape(s) with quote=True: & < > " ' are replaced.
escape_char(c) ==
    CASE c = "&"  -> <<"&","a","m","p",";">>
      [] c = "<"  -> <<"&","l","t",";">>
      [] c = ">"  -> <<"&","g","t",";">>
      [] c = "\"" -> <<"&","q","u","o","t",";">>
      [] c = "'"  -> <<"&","#","x","2","7",";">>
      [] OTHER    -> <<c>>

RECURSIVE html_escape(_)
html_escape(s) ==
    IF s = <<>> THEN <<>> ELSE escape_char(Head(s)) \o html_escape(Tail(s))

\* Index of the first occurrence of the one-character separator at or
\* after position i, or 0.
RECURSIVE find_char(_, _, _)
find_char(s, c, i) ==
    IF i > Len(s) THEN 0
    ELSE IF s[i] = c THEN i
    ELSE find_char(s, c, i + 1)

\* str.split(sep) for a one-character separator: a list of strings.
RECURSIVE split(_, _)
split(s, sep) ==
    LET k == find_char(s, sep, 1) IN
    IF k = 0 THEN <<s>>
    ELSE <<SubSeq(s, 1, k - 1)>> \o split(SubSeq(s, k + 1, Len(s)), sep)

\* sep.join(parts)
RECURSIVE join(_, _)
join(sep, parts) ==
    IF parts = <<>> THEN <<>>
    ELSE IF Len(parts) = 1 THEN parts[1]
    ELSE parts[1] \o sep \o join(sep, Tail(parts))

\* Index of the first occurrence of "://" in s, or 0.
RECURSIVE find_scheme_end(_, _)
find_scheme_end(s, i) ==
    IF i + 2 > Len(s) THEN 0
    ELSE IF SubSeq(s, i, i + 2) = <<":","/","/">> THEN i
    ELSE find_scheme_end(s, i + 1)

\* urllib.parse.urlparse(url) for URLs of the form scheme://netloc/path
\* (no params, query or fragment): the ParseResult fields the code reads.
urlparse(url) ==
    LET k    == find_scheme_end(url, 1)
        rest == IF k = 0 THEN url ELSE SubSeq(url, k + 3, Len(url))
        j    == find_char(rest, "/", 1)
    IN  IF k = 0
        THEN [scheme |-> <<>>, netloc |-> <<>>, path |-> url]
        ELSE [scheme |-> SubSeq(url, 1, k - 1),
              netloc |-> IF j = 0 THEN rest ELSE SubSeq(rest, 1, j - 1),
              path   |-> IF j = 0 THEN <<>> ELSE SubSeq(rest, j, Len(rest))]

\* urllib.parse.urlunparse(p) for the same form.
urlunparse(p) ==
    (IF p.netloc # <<>> \/ p.scheme # <<>>
     THEN p.scheme \o <<":","/","/">> \o p.netloc
     ELSE <<>>) \o p.path

(* ------------------------------------------------------------------ *)
(* Python dicts                                                        *)
(* ------------------------------------------------------------------ *)

EmptyDict == [k \in {} |-> 0]

\* key in d
Has(d, k) == k \in DOMAIN d

\* d[k] = v
Put(d, k, v) == [x \in (DOMAIN d) \cup {k} |-> IF x = k THEN v ELSE d[x]]

(* ------------------------------------------------------------------ *)
(* Program constants                                                   *)
(* ------------------------------------------------------------------ *)

s_iPhone     == <<"i","P","h","o","n","e">>
s_iPad       == <<"i","P","a","d">>
s_iPod_touch == <<"i","P","o","d"," ","t","o","u","c","h">>
s_Apple_TV   == <<"A","p","p","l","e"," ","T","V">>
s_iPod       == <<"i","P","o","d">>
s_AppleTV    == <<"A","p","p","l","e","T","V">>

\* The dict DEVICE_TYPES: menu text -> identifier prefix.
DEVICE_TYPES ==
    (s_iPhone :> s_iPhone) @@ (s_iPad :> s_iPad) @@
    (s_iPod_touch :> s_iPod) @@ (s_Apple_TV :> s_AppleTV)

\* class State(Enum)
NONE         == 0
DEVICE_TYPE  == 1
DEVICE_MODEL == 2
BOARD_CONFIG == 3
FIRMWARE     == 4

\* The suffix of a non-DEV board config.
s_ap == <<"a","p">>

\* The host whose firmwares have no sibling BuildManifest.plist.
s_appldnld == <<"a","p","p","l","d","n","l","d",".",
                "a","p","p","l","e",".","c","o","m">>

s_BuildManifest_plist ==
    <<"B","u","i","l","d","M","a","n","i","f","e","s","t",".",
      "p","l","i","s","t">>

s_None == <<"N","o","n","e">>

\* The URLs of the two catalog calls.
s_api == <<"h","t","t","p","s",":","/","/","a","p","i",".","i","p","s","w",
           ".","m","e","/","v","4","/">>
url_devices == s_api \o <<"d","e","v","i","c","e","s">>
url_device(identifier) == s_api \o <<"d","e","v","i","c","e","/">> \o identifier

\* The texts of the replies.
msg_select_type     == "Please select a device type."
msg_invalid_input   == "Invalid input."
msg_api_unavailable ==
    "Unable to communicate with ipsw.me API, please try again later."
msg_no_devices      == "No devices found. Please start over using /start."
msg_select_device   == "Please select a device."
msg_no_boards       == "No boardconfigs found for this device."
msg_select_board    ==
    "Please select your board config.\n\nYou can get this using the System Info tweak or AIDA64 from the App Store."
msg_invalid_state   == "Invalid state. Please start over using /start."
msg_no_signed       == "No signed firmwares found for this device."
msg_select_version  == "Please select a version."
msg_parse_failed    ==
    "Unable to parse BuildManifest, please try again later."
msg_query_failed    ==
    "Unable to get data from BuildManifest, please try again later."
msg_extracting      == "Extracting BuildManifest, please wait..."
msg_extract_failed  ==
    "Unable to extract BuildManifest for the selected firmware, please try again later."
msg_report          ==
    "<b>{device} ({boardconfig}) - {firmware} ({buildid})</b>\n\n<b>SEP</b>: {sep_path}\n<b>Baseband</b>: {bb_path}"

(* ------------------------------------------------------------------ *)
(* Replies: update.message.reply_text(text, reply_markup=...)          *)
(* ------------------------------------------------------------------ *)

NoMarkup            == [kind |-> "none"]
ReplyKeyboardRemove == [kind |-> "remove"]
ReplyKeyboardMarkup(keyboard) == [kind |-> "keyboard", keyboard |-> keyboard]

reply_text(text, markup) == [text |-> text, reply_markup |-> markup]

\* The keyboard loop: two labels per row, in list order.
keyboard_rows(labels) ==
    [r \in 1..((Len(labels) + 1) \div 2) |->
        SubSeq(labels, 2 * r - 1,
               IF 2 * r <= Len(labels) THEN 2 * r ELSE 2 * r - 1)]

\* [f(x) for x in xs if p(x)] for the lists of the code.
RECURSIVE SelectSeqIdx(_, _)
SelectSeqIdx(xs, keep) ==
    IF xs = <<>> THEN <<>>
    ELSE (IF keep[1] THEN <<Head(xs)>> ELSE <<>>)
         \o SelectSeqIdx(Tail(xs), Tail(keep))

(* ------------------------------------------------------------------ *)
(* The environment: what the catalog, the manifest host and pzb may    *)
(* answer.  Every answer is chosen anew at each call.                  *)
(* ------------------------------------------------------------------ *)

id_iPhone1 == <<"i","P","h","o","n","e","1",",","1">>
id_iPhone2 == <<"i","P","h","o","n","e","2",",","1">>
id_iPad1   == <<"i","P","a","d","1",",","1">>

name_A == <<"A","&","1">>
name_B == <<"B","<","2">>
name_C == <<"C">>

sum_A == [identifier |-> id_iPhone1, name |-> name_A]
sum_B == [identifier |-> id_iPhone2, name |-> name_B]
sum_C == [identifier |-> id_iPad1,   name |-> name_C]

\* The device lists GET /v4/devices may return.
DeviceLists == { <<sum_A, sum_B, sum_C>>, <<sum_C>> }

board_n1   == <<"n","1","a","p">>
board_n1d  == <<"n","1","D","E","V">>
board_N2   == <<"N","2","A","P">>
board_n2b  == <<"n","2","b","a","p">>
board_n2d  == <<"n","2","D","E","V">>
board_k1d  == <<"k","1","D","E","V">>
board_free == <<"z","a","p">>

ver_1 == <<"1",".","0">>
ver_2 == <<"2",".","0">>

url_cdn    == <<"h",":","/","/","u",".","i","o","/","a","/","f">>
url_legacy == <<"h",":","/","/",
                "a","p","p","l","d","n","l","d",".","a","p","p","l","e",
                ".","c","o","m","/","b","/","g">>

fw_old    == [version |-> ver_1, buildid |-> <<"A","'","1">>,
              url |-> url_cdn, signed |-> FALSE]
fw_new    == [version |-> ver_2, buildid |-> <<"B","2">>,
              url |-> url_cdn, signed |-> TRUE]
fw_legacy == [version |-> ver_2, buildid |-> <<"B",">","3">>,
              url |-> url_legacy, signed |-> TRUE]

Board(b) == [boardconfig |-> b]

Detail(s, boards, firmwares) ==
    [identifier |-> s.identifier, name |-> s.name,
     boards |-> boards, firmwares |-> firmwares]

\* The device details GET /v4/device/{identifier} may return.
Details(identifier) ==
    CASE identifier = id_iPhone1 ->
           { Detail(sum_A, <<Board(board_n1d), Board(board_n1)>>, <<fw_old, fw_new>>),
             Detail(sum_A, <<Board(board_n1)>>, <<fw_old>>) }
      [] identifier = id_iPhone2 ->
           { Detail(sum_B, <<Board(board_N2), Board(board_n2d), Board(board_n2b)>>,
                    <<fw_legacy, fw_old>>),
             Detail(sum_B, <<Board(board_N2), Board(board_n2d), Board(board_n2b)>>,
                    <<>>) }
      [] identifier = id_iPad1 ->
           { Detail(sum_C, <<Board(board_k1d)>>, <<fw_new>>) }
      [] OTHER -> {}

Component(path) == [Info |-> [Path |-> path]]

ident_n1   == [Info |-> [DeviceClass |-> <<"n","1","a","p">>],
               Manifest |-> [RestoreSEP |-> Component(<<"s","&","1">>),
                             BasebandFirmware |-> Component(<<"b","1">>)]]
ident_N1   == [Info |-> [DeviceClass |-> <<"N","1","A","P">>],
               Manifest |-> [LLB |-> Component(<<"l">>)]]
ident_n2   == [Info |-> [DeviceClass |-> <<"n","2","a","p">>],
               Manifest |-> [RestoreSEP |-> Component(<<"s","2">>)]]
ident_n2b  == [Info |-> [DeviceClass |-> <<"n","2","b","a","p">>],
               Manifest |-> [BasebandFirmware |-> Component(<<"b","2">>)]]
ident_noinfo == [Manifest |-> [RestoreSEP |-> Component(<<"s","0">>)]]
ident_nopath == [Info |-> [DeviceClass |-> <<"n","2","a","p">>],
                 Manifest |-> [RestoreSEP |-> [Digest |-> <<"d">>]]]

\* The property lists a BuildManifest.plist may hold.
Manifests ==
    { [BuildIdentities |-> <<ident_n2, ident_n1, ident_N1, ident_n2b>>],
      [BuildIdentities |-> <<ident_N1, ident_n1>>],
      [BuildIdentities |-> <<ident_noinfo, ident_n1>>],
      [BuildIdentities |-> <<ident_n1, ident_nopath>>],
      [ProductVersion |-> ver_2] }

\* The bytes of a BuildManifest.plist: a property list, or not one.
Contents == { [valid |-> FALSE] } \cup { [valid |-> TRUE, value |-> m] : m \in Manifests }

\* plistlib.loads(content): the property list, or an exception.
plistlib_loads(content) ==
    IF content.valid THEN [raised |-> FALSE, value |-> content.value]
    ELSE [raised |-> TRUE]

\* The responses of session.get.
DevicesResponses == { [ok |-> FALSE] } \cup { [ok |-> TRUE, json |-> l] : l \in DeviceLists }
DeviceResponses(identifier) ==
    { [ok |-> FALSE] } \cup { [ok |-> TRUE, json |-> d] : d \in Details(identifier) }
ManifestResponses == { [ok |-> FALSE] } \cup { [ok |-> TRUE, content |-> c] : c \in Contents }

\* What one run of pzb does: how long it runs (in polls), and whether it
\* leaves BuildManifest.plist in the directory and with which bytes.
Extractions ==
    { [polls |-> n, exists |-> FALSE] : n \in 0..MaxPolls } \cup
    { [polls |-> n, exists |-> TRUE, content |-> c] : n \in 0..MaxPolls, c \in Contents }

\* The texts a user may send.
Texts ==
    { s_iPhone, s_iPad, s_iPod_touch,
      name_A, name_B, name_C,
      board_N2, board_n2b, board_n2d, board_free,
      ver_1, ver_2 }

(* ------------------------------------------------------------------ *)
(* The handlers, as functions from the state they read to the state    *)
(* they leave and what they send.                                      *)
(* ------------------------------------------------------------------ *)

\* The process working directory: where the bot was started, or the
\* temporary directory of an extraction, which no longer exists.
cwd_start   == "start directory"
cwd_removed == "removed temporary directory"

\* r = session.get(url): the call made, and whether r.ok.
fetched(url, ok) == [url |-> url, ok |-> ok]

\* What one handler call leaves and sends.
Result(ud, bd, wd, replies, fetches, pzb, raised) ==
    [user_data |-> ud, bot_data |-> bd, cwd |-> wd,
     replies |-> replies, fetches |-> fetches,
     pzb_calls |-> pzb.calls, popens |-> pzb.popens, typing |-> pzb.typing,
     queried |-> pzb.queried, raised |-> raised]

\* No extraction, and nothing searched for a build identity.
NoPzb == [calls |-> 0, popens |-> 0, typing |-> 0, queried |-> <<>>]

\* A rejected input that also drops the session.
invalid_input_reset(ud, bd, wd) ==
    Result(EmptyDict, bd, wd, << reply_text(msg_invalid_input, NoMarkup) >>,
           <<>>, NoPzb, FALSE)

\* return update.message.reply_text('Invalid input.')
invalid_input(ud, bd, wd) ==
    Result(ud, bd, wd, << reply_text(msg_invalid_input, NoMarkup) >>,
           <<>>, NoPzb, FALSE)

\* A failed call that is made a second time before giving up.
api_unavailable_retry(ud, bd, wd, url) ==
    Result(ud, bd, wd, << reply_text(msg_api_unavailable, NoMarkup) >>,
           <<fetched(url, FALSE), fetched(url, FALSE)>>, NoPzb, FALSE)

\* if not r.ok: return update.message.reply_text('Unable to communicate
\* with ipsw.me API, please try again later.'), after the one call to url.
api_unavailable(ud, bd, wd, url) ==
    Result(ud, bd, wd, << reply_text(msg_api_unavailable, NoMarkup) >>,
           <<fetched(url, FALSE)>>, NoPzb, FALSE)

\* start without ctx.user_data.clear().
start_keep(ud, bd, wd) ==
    Result(Put(ud, "state", DEVICE_TYPE), bd, wd,
           << reply_text(msg_select_type,
                         ReplyKeyboardMarkup(<< <<s_iPhone, s_iPad>>,
                                                <<s_iPod_touch, s_Apple_TV>> >>)) >>,
           <<>>, NoPzb, FALSE)

\* def start(update, ctx)
start(ud, bd, wd) ==
    Result(Put(EmptyDict, "state", DEVICE_TYPE), bd, wd,
           << reply_text(msg_select_type,
                         ReplyKeyboardMarkup(<< <<s_iPhone, s_iPad>>,
                                                <<s_iPod_touch, s_Apple_TV>> >>)) >>,
           <<>>, NoPzb, FALSE)

\* ctx.user_data.setdefault('state', State.NONE)
setdefault_state(ud) == IF Has(ud, "state") THEN ud ELSE Put(ud, "state", NONE)

\* show_firmware_menu that sends the user back to the device menu when
\* the device has no signed firmware.
show_firmware_menu_back(ud) ==
    IF ~Has(ud, "device")
    THEN [user_data |-> ud,
          replies |-> << reply_text(msg_invalid_state, ReplyKeyboardRemove) >>]
    ELSE
      LET all       == ud["device"].firmwares
          firmwares == SelectSeqIdx(all, [i \in 1..Len(all) |-> all[i].signed])
      IN  IF firmwares = <<>>
          THEN [user_data |-> Put(ud, "state", DEVICE_MODEL),
                replies |-> << reply_text(msg_no_signed, NoMarkup) >>]
          ELSE [user_data |-> Put(ud, "state", FIRMWARE),
                replies |-> << reply_text(msg_select_version,
                    ReplyKeyboardMarkup(keyboard_rows(
                        [i \in 1..Len(firmwares) |-> firmwares[i].version]))) >>]

\* def show_firmware_menu(update, ctx): the user_data it leaves and the
\* replies it sends.
show_firmware_menu(ud) ==
    IF ~Has(ud, "device")
    THEN [user_data |-> ud,
          replies |-> << reply_text(msg_invalid_state, ReplyKeyboardRemove) >>]
    ELSE
      LET all       == ud["device"].firmwares
          firmwares == SelectSeqIdx(all, [i \in 1..Len(all) |-> all[i].signed])
      IN  IF firmwares = <<>>
          THEN [user_data |-> ud,
                replies |-> << reply_text(msg_no_signed, NoMarkup) >>]
          ELSE [user_data |-> Put(ud, "state", FIRMWARE),
                replies |-> << reply_text(msg_select_version,
                    ReplyKeyboardMarkup(keyboard_rows(
                        [i \in 1..Len(firmwares) |-> firmwares[i].version]))) >>]

\* The firmware menu shown without the one board being stored.
select_only_board_unstored(ud, boards) ==
    show_firmware_menu(ud)

\* on_text, lines 122-125: the one board is stored and the firmware menu
\* shown.
select_only_board(ud, boards) ==
    show_firmware_menu(Put(ud, "boardconfig", boards[1]))

\* The branch of State.DEVICE_TYPE caching the devices of the chosen type
\* only.
on_text_DEVICE_TYPE_filtered(ud, bd, wd, text, r) ==
    IF ~Has(DEVICE_TYPES, text)
    THEN invalid_input(ud, bd, wd)
    ELSE IF ~r.ok
    THEN api_unavailable(ud, bd, wd, url_devices)
    ELSE
      LET device_type == DEVICE_TYPES[text]
          all     == r.json
          devices == SelectSeqIdx(all,
                        [i \in 1..Len(all) |-> startswith(all[i].identifier, device_type)])
          bd1     == Put(bd, "devices", devices)
      IN  IF devices = <<>>
          THEN Result(ud, bd1, wd,
                      << reply_text(msg_no_devices, ReplyKeyboardRemove) >>,
                      <<fetched(url_devices, TRUE)>>, NoPzb, FALSE)
          ELSE Result(Put(ud, "state", DEVICE_MODEL), bd1, wd,
                      << reply_text(msg_select_device,
                            ReplyKeyboardMarkup(keyboard_rows(
                                [i \in 1..Len(devices) |-> devices[i].name]))) >>,
                      <<fetched(url_devices, TRUE)>>, NoPzb, FALSE)

\* on_text, the branch of State.DEVICE_TYPE; r is the response of the
\* device-list call.
on_text_DEVICE_TYPE(ud, bd, wd, text, r) ==
    IF ~Has(DEVICE_TYPES, text)
    THEN invalid_input(ud, bd, wd)
    ELSE IF ~r.ok
    THEN api_unavailable(ud, bd, wd, url_devices)
    ELSE
      LET device_type == DEVICE_TYPES[text]
          bd1     == Put(bd, "devices", r.json)
          all     == bd1["devices"]
          devices == SelectSeqIdx(all,
                        [i \in 1..Len(all) |-> startswith(all[i].identifier, device_type)])
      IN  IF devices = <<>>
          THEN Result(ud, bd1, wd,
                      << reply_text(msg_no_devices, ReplyKeyboardRemove) >>,
                      <<fetched(url_devices, TRUE)>>, NoPzb, FALSE)
          ELSE Result(Put(ud, "state", DEVICE_MODEL), bd1, wd,
                      << reply_text(msg_select_device,
                            ReplyKeyboardMarkup(keyboard_rows(
                                [i \in 1..Len(devices) |-> devices[i].name]))) >>,
                      <<fetched(url_devices, TRUE)>>, NoPzb, FALSE)

\* next(x for x in ctx.bot_data['devices'] if x['name'] == text): the
\* matching devices, in list order (none when the key is missing).
devices_named(bd, text) ==
    IF ~Has(bd, "devices") THEN <<>>
    ELSE LET all == bd["devices"]
         IN  SelectSeqIdx(all, [i \in 1..Len(all) |-> all[i].name = text])

\* on_text, the branch of State.DEVICE_MODEL; r is the response of the
\* device-detail call.
on_text_DEVICE_MODEL(ud, bd, wd, text, r) ==
    IF ~Has(bd, "devices")
    THEN Result(ud, bd, wd, <<>>, <<>>, NoPzb, TRUE)
    ELSE IF devices_named(bd, text) = <<>>
    THEN invalid_input(ud, bd, wd)
    ELSE
      LET summary == Head(devices_named(bd, text))
          url     == url_device(summary.identifier)
      IN  IF ~r.ok
          THEN api_unavailable(ud, bd, wd, url)
          ELSE
            LET device == r.json
                all    == device.boards
                kept   == SelectSeqIdx(all,
                             [i \in 1..Len(all) |->
                                 endswith(lower(all[i].boardconfig), s_ap)])
                boards == [i \in 1..Len(kept) |-> kept[i].boardconfig]
                ud1    == Put(ud, "device", device)
            IN  IF boards = <<>>
                THEN Result(ud, bd, wd, << reply_text(msg_no_boards, NoMarkup) >>,
                            <<fetched(url, TRUE)>>, NoPzb, FALSE)
                ELSE IF Len(boards) > 1
                THEN Result(Put(ud1, "state", BOARD_CONFIG), bd, wd,
                            << reply_text(msg_select_board,
                                  ReplyKeyboardMarkup(keyboard_rows(boards))) >>,
                            <<fetched(url, TRUE)>>, NoPzb, FALSE)
                ELSE
                  LET m == select_only_board(ud1, boards)
                  IN  Result(m.user_data, bd, wd, m.replies, <<fetched(url, TRUE)>>, NoPzb, FALSE)

\* The branch of State.BOARD_CONFIG accepting every text.
on_text_BOARD_CONFIG_any(ud, bd, wd, text) ==
    LET m == show_firmware_menu(Put(ud, "boardconfig", text))
    IN  Result(m.user_data, bd, wd, m.replies, <<>>, NoPzb, FALSE)

\* The branch of State.BOARD_CONFIG without the board config being stored.
on_text_BOARD_CONFIG_unstored(ud, bd, wd, text) ==
    IF ~endswith(lower(text), s_ap)
    THEN invalid_input(ud, bd, wd)
    ELSE
      LET m == show_firmware_menu(ud)
      IN  Result(m.user_data, bd, wd, m.replies, <<>>, NoPzb, FALSE)

\* on_text, the branch of State.BOARD_CONFIG.
on_text_BOARD_CONFIG(ud, bd, wd, text) ==
    IF ~endswith(lower(text), s_ap)
    THEN invalid_input(ud, bd, wd)
    ELSE
      LET m == show_firmware_menu(Put(ud, "boardconfig", text))
      IN  Result(m.user_data, bd, wd, m.replies, <<>>, NoPzb, FALSE)

\* What update.message.reply_text returns: a telegram Message, which
\* holds no 'BuildIdentities'.
Message(text) == [message_id |-> 0, text |-> text]

\* def pzb_buildmanifest(update, ctx, firmware); ext is what pzb does.
\* Path.cwd() raises FileNotFoundError when the working directory no
\* longer exists.  The temporary directory is removed when the with
\* block is left; the working directory is changed back only on the
\* last line.
pzb_buildmanifest(wd, firmware, ext) ==
    LET first == << reply_text(msg_extracting, NoMarkup) >> IN
    IF wd = cwd_removed
    THEN [replies |-> first, popens |-> 0, typing |-> 0, cwd |-> wd,
          raised |-> TRUE]
    ELSE IF ~ext.exists
    THEN [replies |-> first \o << reply_text(msg_extract_failed, NoMarkup) >>,
          popens |-> 1, typing |-> ext.polls, cwd |-> cwd_removed,
          raised |-> FALSE, value |-> Message(msg_extract_failed)]
    ELSE
      LET parsed == plistlib_loads(ext.content) IN
      IF parsed.raised
      THEN [replies |-> first \o << reply_text(msg_parse_failed, NoMarkup) >>,
            popens |-> 1, typing |-> ext.polls, cwd |-> cwd_removed,
            raised |-> TRUE]
      ELSE [replies |-> first, popens |-> 1, typing |-> ext.polls, cwd |-> wd,
            raised |-> FALSE, value |-> parsed.value]

\* The URL of the BuildManifest.plist beside the firmware.
buildmanifest_url(p) ==
    LET parts == split(p.path, "/") IN
    urlunparse([p EXCEPT !.path =
        join(<<"/">>, SubSeq(parts, 1, Len(parts) - 1) \o <<s_BuildManifest_plist>>)])

\* A resolution that tries the sibling URL for every host.
resolve_buildmanifest_direct(wd, firmware, r, ext) ==
    LET url == buildmanifest_url(urlparse(firmware.url)) IN
    IF r.ok /\ ~plistlib_loads(r.content).raised
    THEN [replies |-> <<>>, popens |-> 0, typing |-> 0, cwd |-> wd,
          raised |-> FALSE, value |-> plistlib_loads(r.content).value,
          fetches |-> <<fetched(url, TRUE)>>, pzb_calls |-> 0]
    ELSE pzb_buildmanifest(wd, firmware, ext)
         @@ [fetches |-> <<fetched(url, r.ok)>>, pzb_calls |-> 1]

\* A resolution that falls back to extraction when the fetched body is
\* no property list.
resolve_buildmanifest_reparse(wd, firmware, r, ext) ==
    LET p   == urlparse(firmware.url)
        url == buildmanifest_url(p)
    IN  IF p.netloc = s_appldnld
        THEN pzb_buildmanifest(wd, firmware, ext)
             @@ [fetches |-> <<>>, pzb_calls |-> 1]
        ELSE IF r.ok /\ ~plistlib_loads(r.content).raised
        THEN [replies |-> <<>>, popens |-> 0, typing |-> 0, cwd |-> wd,
              raised |-> FALSE, value |-> plistlib_loads(r.content).value,
              fetches |-> <<fetched(url, TRUE)>>, pzb_calls |-> 0]
        ELSE pzb_buildmanifest(wd, firmware, ext)
             @@ [fetches |-> <<fetched(url, r.ok)>>, pzb_calls |-> 1]

\* on_text, lines 144-162: the build manifest of the chosen firmware; r
\* is the response of the direct fetch, ext what pzb does.
resolve_buildmanifest(wd, firmware, r, ext) ==
    LET p == urlparse(firmware.url) IN
    IF p.netloc = s_appldnld
    THEN LET x == pzb_buildmanifest(wd, firmware, ext)
         IN  x @@ [fetches |-> <<>>, pzb_calls |-> 1]
    ELSE
      LET url == buildmanifest_url(p) IN
      IF r.ok
      THEN LET parsed == plistlib_loads(r.content) IN
           IF parsed.raised
           THEN [replies |-> << reply_text(msg_parse_failed, NoMarkup) >>,
                 popens |-> 0, typing |-> 0, cwd |-> wd, raised |-> TRUE,
                 fetches |-> <<fetched(url, TRUE)>>, pzb_calls |-> 0]
           ELSE [replies |-> <<>>, popens |-> 0, typing |-> 0, cwd |-> wd,
                 raised |-> FALSE, value |-> parsed.value,
                 fetches |-> <<fetched(url, TRUE)>>, pzb_calls |-> 0]
      ELSE LET x == pzb_buildmanifest(wd, firmware, ext)
           IN  x @@ [fetches |-> <<fetched(url, FALSE)>>, pzb_calls |-> 1]

\* A search that compares the board config as it is written.
RECURSIVE first_buildidentity_exact(_, _)
first_buildidentity_exact(identities, boardconfig) ==
    IF identities = <<>> THEN [raised |-> TRUE]
    ELSE LET x == Head(identities) IN
         IF ~Has(x, "Info") THEN [raised |-> TRUE]
         ELSE IF ~Has(x["Info"], "DeviceClass") THEN [raised |-> TRUE]
         ELSE IF x["Info"]["DeviceClass"] = boardconfig
         THEN [raised |-> FALSE, value |-> x]
         ELSE first_buildidentity_exact(Tail(identities), boardconfig)

\* next(x for x in identities if x['Info']['DeviceClass'].lower() ==
\* boardconfig.lower()): the first match, or the exception the search
\* ends in (a missing key on the way, or StopIteration).
RECURSIVE first_buildidentity(_, _)
first_buildidentity(identities, boardconfig) ==
    IF identities = <<>> THEN [raised |-> TRUE]
    ELSE LET x == Head(identities) IN
         IF ~Has(x, "Info") THEN [raised |-> TRUE]
         ELSE IF ~Has(x["Info"], "DeviceClass") THEN [raised |-> TRUE]
         ELSE IF lower(x["Info"]["DeviceClass"]) = lower(boardconfig)
         THEN [raised |-> FALSE, value |-> x]
         ELSE first_buildidentity(Tail(identities), boardconfig)

\* manifest[key]['Info']['Path'] if key in manifest else 'None'
component_path(manifest, key) ==
    IF ~Has(manifest, key) THEN [raised |-> FALSE, value |-> s_None]
    ELSE IF ~Has(manifest[key], "Info") THEN [raised |-> TRUE]
    ELSE IF ~Has(manifest[key]["Info"], "Path") THEN [raised |-> TRUE]
    ELSE [raised |-> FALSE, value |-> manifest[key]["Info"]["Path"]]

\* on_text, lines 164-181: the SEP and baseband paths of the board's
\* build identity, or an exception.
query_buildmanifest(buildmanifest, boardconfig) ==
    IF ~Has(buildmanifest, "BuildIdentities") THEN [raised |-> TRUE]
    ELSE
      LET found == first_buildidentity(buildmanifest["BuildIdentities"], boardconfig)
      IN  IF found.raised THEN [raised |-> TRUE]
          ELSE IF ~Has(found.value, "Manifest") THEN [raised |-> TRUE]
          ELSE
            LET sep == component_path(found.value["Manifest"], "RestoreSEP")
                bb  == component_path(found.value["Manifest"], "BasebandFirmware")
            IN  IF sep.raised \/ bb.raised THEN [raised |-> TRUE]
                ELSE [raised |-> FALSE, sep_path |-> sep.value, bb_path |-> bb.value]

\* The final report without html.escape.
report_unescaped(ud, firmware, q) ==
    [text |-> msg_report,
     format |-> [device      |-> ud["device"].name,
                 boardconfig |-> ud["boardconfig"],
                 firmware    |-> firmware.version,
                 buildid     |-> firmware.buildid,
                 sep_path    |-> q.sep_path,
                 bb_path     |-> q.bb_path],
     parse_mode |-> "html",
     reply_markup |-> ReplyKeyboardRemove]

\* The final report of on_text, lines 183-196.
report(ud, firmware, q) ==
    [text |-> msg_report,
     format |-> [device      |-> html_escape(ud["device"].name),
                 boardconfig |-> html_escape(ud["boardconfig"]),
                 firmware    |-> html_escape(firmware.version),
                 buildid     |-> html_escape(firmware.buildid),
                 sep_path    |-> html_escape(q.sep_path),
                 bb_path     |-> html_escape(q.bb_path)],
     parse_mode |-> "html",
     reply_markup |-> ReplyKeyboardRemove]

\* A lookup of the version among the signed firmwares only.
firmwares_versioned_signed(ud, text) ==
    LET all == ud["device"].firmwares
    IN  SelectSeqIdx(all, [i \in 1..Len(all) |->
                              all[i].signed /\ all[i].version = text])

\* next(x for x in device['firmwares'] if x['version'] == text)
firmwares_versioned(ud, text) ==
    LET all == ud["device"].firmwares
    IN  SelectSeqIdx(all, [i \in 1..Len(all) |-> all[i].version = text])

\* on_text, the branch of State.FIRMWARE.
on_text_FIRMWARE(ud, bd, wd, text, r, ext) ==
    IF ~Has(ud, "device") \/ ~Has(ud, "boardconfig")
    THEN Result(ud, bd, wd, << reply_text(msg_invalid_state, ReplyKeyboardRemove) >>,
                <<>>, NoPzb, FALSE)
    ELSE IF firmwares_versioned(ud, text) = <<>>
    THEN invalid_input(ud, bd, wd)
    ELSE
      LET firmware == Head(firmwares_versioned(ud, text))
          m        == resolve_buildmanifest(wd, firmware, r, ext)
          pzb      == [calls |-> m.pzb_calls, popens |-> m.popens,
                       typing |-> m.typing,
                       queried |-> IF m.raised THEN <<>> ELSE <<m.value>>]
      IN  IF m.raised
          THEN Result(ud, bd, m.cwd, m.replies, m.fetches, pzb, TRUE)
          ELSE
            LET q == query_buildmanifest(m.value, ud["boardconfig"]) IN
            IF q.raised
            THEN Result(ud, bd, m.cwd,
                        m.replies \o << reply_text(msg_query_failed, NoMarkup) >>,
                        m.fetches, pzb, TRUE)
            ELSE Result(EmptyDict, bd, m.cwd,
                        m.replies \o << report(ud, firmware, q) >>,
                        m.fetches, pzb, FALSE)

\* on_text, the else branch: no state of the wizard.
on_text_else(ud, bd, wd, text) ==
    Result(ud, bd, wd, << reply_text(msg_invalid_state, ReplyKeyboardRemove) >>,
           <<>>, NoPzb, FALSE)

(* ------------------------------------------------------------------ *)
(* The state machine                                                   *)
(* ------------------------------------------------------------------ *)

VARIABLES
    user_data,   \* ctx.user_data of each conversation: a dict
    bot_data,    \* ctx.bot_data: one dict for the whole bot
    cwd,         \* the working directory of the process
    out          \* the last handler call: whose, on what, and what it sent

vars == <<user_data, bot_data, cwd, out>>

\* The step of a conversation: its 'state', State.NONE when it has none.
step(ud) == IF Has(ud, "state") THEN ud["state"] ELSE NONE

Init ==
    /\ user_data = [c \in Convs |-> EmptyDict]
    /\ bot_data = EmptyDict
    /\ cwd = cwd_start
    /\ out = [conv |-> 0, handler |-> "none", text |-> <<>>, state |-> NONE,
              replies |-> <<>>, fetches |-> <<>>,
              pzb_calls |-> 0, popens |-> 0, typing |-> 0, queried |-> <<>>,
              raised |-> FALSE]

\* One handler call of conversation c, dispatched on state, with result res.
Handle(c, handler, text, state, result) ==
    \E res \in { result } :
        /\ user_data' = [user_data EXCEPT ![c] = res.user_data]
        /\ bot_data' = res.bot_data
        /\ cwd' = res.cwd
        /\ out' = [conv |-> c, handler |-> handler, text |-> text, state |-> state,
                   replies |-> res.replies, fetches |-> res.fetches,
                   pzb_calls |-> res.pzb_calls, popens |-> res.popens,
                   typing |-> res.typing, queried |-> res.queried,
                   raised |-> res.raised]

\* The answers of the environment to the calls a handler makes: a call
\* that is not made has one answer, which nothing reads.
NoResponse   == [ok |-> FALSE]
NoExtraction == [polls |-> 0, exists |-> FALSE]

DevicesCalls(text) ==
    IF Has(DEVICE_TYPES, text) THEN DevicesResponses ELSE { NoResponse }

DeviceCalls(bd, text) ==
    IF devices_named(bd, text) = <<>> THEN { NoResponse }
    ELSE DeviceResponses(Head(devices_named(bd, text)).identifier)

ManifestCalls(ud, text) ==
    IF ~Has(ud, "device") \/ ~Has(ud, "boardconfig")
    THEN { [r |-> NoResponse, ext |-> NoExtraction] }
    ELSE IF firmwares_versioned(ud, text) = <<>>
    THEN { [r |-> NoResponse, ext |-> NoExtraction] }
    ELSE IF urlparse(Head(firmwares_versioned(ud, text)).url).netloc = s_appldnld
    THEN { [r |-> NoResponse, ext |-> x] : x \in Extractions }
    ELSE { [r |-> r, ext |-> NoExtraction] : r \in { y \in ManifestResponses : y.ok } }
         \cup { [r |-> NoResponse, ext |-> x] : x \in Extractions }

\* CommandHandler('start', start)
Start(c) ==
    /\ c \in DOMAIN user_data
    /\ Handle(c, "start", <<>>, step(user_data[c]),
              start(user_data[c], bot_data, cwd))

\* MessageHandler(Filters.text, on_text), by the branch it takes.
OnTextDeviceType(c, text) ==
    LET ud == setdefault_state(user_data[c]) IN
    /\ ud["state"] = DEVICE_TYPE
    /\ \E r \in DevicesCalls(text) :
          Handle(c, "on_text", text, DEVICE_TYPE,
                 on_text_DEVICE_TYPE(ud, bot_data, cwd, text, r))

OnTextDeviceModel(c, text) ==
    LET ud == setdefault_state(user_data[c]) IN
    /\ ud["state"] = DEVICE_MODEL
    /\ \E r \in DeviceCalls(bot_data, text) :
          Handle(c, "on_text", text, DEVICE_MODEL,
                 on_text_DEVICE_MODEL(ud, bot_data, cwd, text, r))

OnTextBoardConfig(c, text) ==
    LET ud == setdefault_state(user_data[c]) IN
    /\ ud["state"] = BOARD_CONFIG
    /\ Handle(c, "on_text", text, BOARD_CONFIG,
              on_text_BOARD_CONFIG(ud, bot_data, cwd, text))

OnTextFirmware(c, text) ==
    LET ud == setdefault_state(user_data[c]) IN
    /\ ud["state"] = FIRMWARE
    /\ \E e \in ManifestCalls(ud, text) :
          Handle(c, "on_text", text, FIRMWARE,
                 on_text_FIRMWARE(ud, bot_data, cwd, text, e.r, e.ext))

OnTextElse(c, text) ==
    LET ud == setdefault_state(user_data[c]) IN
    /\ ud["state"] \notin {DEVICE_TYPE, DEVICE_MODEL, BOARD_CONFIG, FIRMWARE}
    /\ Handle(c, "on_text", text, ud["state"],
              on_text_else(ud, bot_data, cwd, text))

Next ==
    \/ \E c \in Convs : Start(c)
    \/ \E c \in Convs, text \in Texts : OnTextDeviceType(c, text)
    \/ \E c \in Convs, text \in Texts : OnTextDeviceModel(c, text)
    \/ \E c \in Convs, text \in Texts : OnTextBoardConfig(c, text)
    \/ \E c \in Convs, text \in Texts : OnTextFirmware(c, text)
    \/ \E c \in Convs, text \in Texts : OnTextElse(c, text)

Spec == Init /\ [][Next]_vars

\* The bot with one conversation more: every conversation has its own
\* ctx.user_data; ctx.bot_data and the working directory are those of the
\* process.  The dispatcher runs one handler call at a time, in any
\* order of the conversations' messages.
Convs11 == 1..(NumConvs + 1)

Init11 ==
    /\ user_data = [c \in Convs11 |-> EmptyDict]
    /\ bot_data = EmptyDict
    /\ cwd = cwd_start
    /\ out = [conv |-> 0, handler |-> "none", text |-> <<>>, state |-> NONE,
              replies |-> <<>>, fetches |-> <<>>,
              pzb_calls |-> 0, popens |-> 0, typing |-> 0, queried |-> <<>>,
              raised |-> FALSE]

Next11 ==
    \/ \E c \in Convs11 : Start(c)
    \/ \E c \in Convs11, text \in Texts : OnTextDeviceType(c, text)
    \/ \E c \in Convs11, text \in Texts : OnTextDeviceModel(c, text)
    \/ \E c \in Convs11, text \in Texts : OnTextBoardConfig(c, text)
    \/ \E c \in Convs11, text \in Texts : OnTextFirmware(c, text)
    \/ \E c \in Convs11, text \in Texts : OnTextElse(c, text)

Spec11 == Init11 /\ [][Next11]_vars

(* ------------------------------------------------------------------ *)
(* Properties                                                          *)
(* ------------------------------------------------------------------ *)

\* A dict entry as a list: empty when the key is missing.
Entry(ud, k) == IF Has(ud, k) THEN <<ud[k]>> ELSE <<>>

\* Two sessions with the same step, device detail and board config.
SameSession(ud1, ud2) ==
    /\ step(ud1) = step(ud2)
    /\ Entry(ud1, "device") = Entry(ud2, "device")
    /\ Entry(ud1, "boardconfig") = Entry(ud2, "boardconfig")

\* The texts of the replies of the last handler call.
Sent(o, text) == \E i \in DOMAIN o.replies : o.replies[i].text = text

\* The last handler call sent this one reply and nothing else.
SentOnly(o, text) == Len(o.replies) = 1 /\ o.replies[1].text = text

\* C1: whatever the session held, after start it is at DEVICE_TYPE and
\* holds no device detail and no board config.
Thm_C1 ==
    out.handler = "start" =>
        LET ud == user_data[out.conv] IN
        /\ step(ud) = DEVICE_TYPE
        /\ ~Has(ud, "device")
        /\ ~Has(ud, "boardconfig")

\* start was sent to a session waiting for a firmware version, which held
\* a device detail and a board config.
Wit_C1 ==
    /\ out.handler = "start"
    /\ out.state = FIRMWARE
    /\ step(user_data[out.conv]) = DEVICE_TYPE

\* One step forward in the order of the wizard; BOARD_CONFIG may be skipped.
Forward(a, b) ==
    \/ a = DEVICE_TYPE /\ b = DEVICE_MODEL
    \/ a = DEVICE_MODEL /\ b \in {BOARD_CONFIG, FIRMWARE}
    \/ a = BOARD_CONFIG /\ b = FIRMWARE

\* C2: a session's step changes only forward in the order of the wizard
\* (on a text message), to DEVICE_TYPE by start, or to NONE with the
\* final report; a rejected input changes no step.
Step_C2 ==
    \A c \in Convs :
        LET a == step(user_data[c])
            b == step(user_data'[c])
        IN  /\ a # b =>
                /\ out'.conv = c
                /\ \/ out'.handler = "on_text" /\ Forward(a, b)
                   \/ out'.handler = "start" /\ b = DEVICE_TYPE
                   \/ /\ out'.handler = "on_text"
                      /\ Sent(out', msg_report)
                      /\ a = FIRMWARE
                      /\ b = NONE
            /\ Sent(out', msg_invalid_input) => a = b

\* C2: every step of every behaviour changes the steps of the sessions
\* only in the ways of Step_C2.
Thm_C2 == [][Step_C2]_vars

\* A device with one board was chosen: the step went from DEVICE_MODEL
\* straight to FIRMWARE.
Wit_C2 ==
    /\ out.handler = "on_text"
    /\ out.state = DEVICE_MODEL
    /\ step(user_data[out.conv]) = FIRMWARE

\* C3 (as claimed): a device detail is held only at BOARD_CONFIG or
\* FIRMWARE, and a board config only at FIRMWARE.
Cex_C3 ==
    \A c \in Convs :
        LET ud == user_data[c] IN
        /\ Has(ud, "device") => step(ud) \in {BOARD_CONFIG, FIRMWARE}
        /\ Has(ud, "boardconfig") => step(ud) = FIRMWARE

\* C4: a text message answered with "Invalid input." leaves the step,
\* the device detail and the board config of its session as they were.
Step_C4 ==
    (out'.handler = "on_text" /\ Sent(out', msg_invalid_input)) =>
        /\ SentOnly(out', msg_invalid_input)
        /\ SameSession(user_data'[out'.conv], user_data[out'.conv])
        /\ step(user_data[out'.conv]) = out'.state

\* C4: every step that answers "Invalid input." leaves the session as
\* it was.
Thm_C4 == [][Step_C4]_vars

\* A text that does not end in "ap" was rejected at BOARD_CONFIG.
Wit_C4 ==
    /\ out.handler = "on_text"
    /\ out.state = BOARD_CONFIG
    /\ SentOnly(out, msg_invalid_input)
    /\ ~endswith(lower(out.text), s_ap)
    /\ step(user_data[out.conv]) = BOARD_CONFIG

\* The replies of the last handler call that are final reports.
Reports(o) == { i \in DOMAIN o.replies : o.replies[i].text = msg_report }

\* The build identity the report is about: the first, in the order of
\* the manifest, whose DeviceClass is the board config but for case.
IsIdentityOf(x, boardconfig) ==
    /\ Has(x, "Info")
    /\ Has(x["Info"], "DeviceClass")
    /\ lower(x["Info"]["DeviceClass"]) = lower(boardconfig)

FirstIdentityOf(identities, boardconfig) ==
    identities[CHOOSE i \in DOMAIN identities :
                  /\ IsIdentityOf(identities[i], boardconfig)
                  /\ \A j \in 1..(i - 1) : ~IsIdentityOf(identities[j], boardconfig)]

\* The path a report gives for a component of a build identity.
ReportedPath(identity, key) ==
    IF Has(identity["Manifest"], key)
    THEN html_escape(identity["Manifest"][key]["Info"]["Path"])
    ELSE s_None

\* C5, after the report: one report, no exception, and the session holds
\* nothing; a text message to a session without a step is answered with
\* the invalid-state notice and leaves it without a step.
Inv_C5 ==
    /\ Sent(out, msg_report) =>
          /\ Cardinality(Reports(out)) = 1
          /\ out.handler = "on_text"
          /\ out.state = FIRMWARE
          /\ ~out.raised
          /\ step(user_data[out.conv]) = NONE
          /\ ~Has(user_data[out.conv], "device")
          /\ ~Has(user_data[out.conv], "boardconfig")
    /\ (out.handler = "on_text" /\ out.state = NONE) =>
          /\ SentOnly(out, msg_invalid_state)
          /\ step(user_data[out.conv]) = NONE

\* C5, the report itself: it carries the escaped name of the device held,
\* the board config held, the version sent and its build id, and the
\* paths of the board's build identity, "None" for a component it lacks.
Step_C5 ==
    Sent(out', msg_report) =>
        LET ud  == user_data[out'.conv]
            rep == out'.replies[CHOOSE i \in Reports(out') : TRUE].format
            fws == ud["device"].firmwares
            fw  == fws[CHOOSE i \in DOMAIN fws :
                          /\ fws[i].version = out'.text
                          /\ \A j \in 1..(i - 1) : fws[j].version # out'.text]
            x   == FirstIdentityOf(out'.queried[1]["BuildIdentities"], ud["boardconfig"])
        IN  /\ rep.device = html_escape(ud["device"].name)
            /\ rep.boardconfig = html_escape(ud["boardconfig"])
            /\ rep.firmware = html_escape(out'.text)
            /\ rep.buildid = html_escape(fw.buildid)
            /\ rep.sep_path = ReportedPath(x, "RestoreSEP")
            /\ rep.bb_path = ReportedPath(x, "BasebandFirmware")

\* C5: a successful firmware selection sends one report with the values
\* of the session and of its build identity, and leaves the session
\* empty, where text messages get the invalid-state notice.
Thm_C5 == []Inv_C5 /\ [][Step_C5]_vars

\* A report was sent for a build identity with a SEP and no baseband.
Wit_C5 ==
    /\ Sent(out, msg_report)
    /\ LET rep == out.replies[CHOOSE i \in Reports(out) : TRUE].format
       IN  rep.sep_path # s_None /\ rep.bb_path = s_None
    /\ user_data[out.conv] = EmptyDict

\* The replies that ask to try again later.
TryAgainLater ==
    { msg_api_unavailable, msg_parse_failed, msg_query_failed, msg_extract_failed }

\* C6 (as claimed): a firmware selection that ends in an exception sent
\* a "please try again later" message and no report, and left the
\* session at FIRMWARE with its device detail and board config.
Step_C6 ==
    (out'.handler = "on_text" /\ out'.state = FIRMWARE /\ out'.raised) =>
        /\ \E t \in TryAgainLater : Sent(out', t)
        /\ ~Sent(out', msg_report)
        /\ step(user_data'[out'.conv]) = FIRMWARE
        /\ SameSession(user_data'[out'.conv], user_data[out'.conv])

\* C6 (as claimed): every step in which a firmware selection raises
\* sent a "please try again later" message and kept the session.
Cex_C6 == [][Step_C6]_vars

\* The eligible boards of a device detail: those ending in "ap".
EligibleBoards(device) ==
    { i \in DOMAIN device.boards : endswith(lower(device.boards[i].boardconfig), s_ap) }

\* The last call accepted a device model whose detail has one eligible
\* board.
AcceptedOneBoard ==
    /\ out.handler = "on_text"
    /\ out.state = DEVICE_MODEL
    /\ out.fetches # <<>>
    /\ ~Sent(out, msg_api_unavailable)
    /\ ~Sent(out, msg_no_boards)
    /\ Has(user_data[out.conv], "device")
    /\ Cardinality(EligibleBoards(user_data[out.conv]["device"])) = 1

\* C7 (as claimed): then the board is stored, no board prompt is sent and
\* the step is FIRMWARE.
Cex_C7 ==
    AcceptedOneBoard =>
        LET ud == user_data[out.conv] IN
        /\ Has(ud, "boardconfig")
        /\ \E i \in EligibleBoards(ud["device"]) :
              ud["boardconfig"] = ud["device"].boards[i].boardconfig
        /\ ~Sent(out, msg_select_board)
        /\ step(ud) = FIRMWARE

\* C7 (amended): then the board is stored, no board prompt is sent, the
\* step is not BOARD_CONFIG, and it is FIRMWARE when the device has a
\* signed firmware.
Thm_C7 ==
    AcceptedOneBoard =>
        LET ud == user_data[out.conv] IN
        /\ Has(ud, "boardconfig")
        /\ \E i \in EligibleBoards(ud["device"]) :
              ud["boardconfig"] = ud["device"].boards[i].boardconfig
        /\ ~Sent(out, msg_select_board)
        /\ step(ud) # BOARD_CONFIG
        /\ (\E i \in DOMAIN ud["device"].firmwares : ud["device"].firmwares[i].signed)
              => (step(ud) = FIRMWARE /\ SentOnly(out, msg_select_version))

\* A device with a DEV board and one eligible board was accepted, and
\* the firmware menu shown.
Wit_C7 ==
    /\ AcceptedOneBoard
    /\ Len(user_data[out.conv]["device"].boards) > 1
    /\ step(user_data[out.conv]) = FIRMWARE

\* C8 (as claimed): after "No signed firmwares found" the session has no
\* step.
Cex_C8 ==
    Sent(out, msg_no_signed) => step(user_data[out.conv]) = NONE

\* C9 (as claimed): after "No devices found" the session has no step.
Cex_C9 ==
    Sent(out, msg_no_devices) => step(user_data[out.conv]) = NONE

\* C10: a catalog call that fails is made once and answered with the
\* "try again later" message alone; the session and the cached device
\* list are as they were, at the step the message was sent to.
Step_C10 ==
    (out'.handler = "on_text" /\ Sent(out', msg_api_unavailable)) =>
        /\ SentOnly(out', msg_api_unavailable)
        /\ Len(out'.fetches) = 1
        /\ out'.state \in {DEVICE_TYPE, DEVICE_MODEL}
        /\ step(user_data'[out'.conv]) = out'.state
        /\ SameSession(user_data'[out'.conv], user_data[out'.conv])
        /\ bot_data' = bot_data
        /\ ~out'.raised

\* C10: every step that answers a failed catalog call made the call
\* once and changed neither the session nor the cached device list.
Thm_C10 == [][Step_C10]_vars

\* The device-detail call failed for a device of the cached list.
Wit_C10 ==
    /\ out.handler = "on_text"
    /\ out.state = DEVICE_MODEL
    /\ SentOnly(out, msg_api_unavailable)
    /\ step(user_data[out.conv]) = DEVICE_MODEL
    /\ Has(bot_data, "devices")

\* A text that names a firmware of the device detail a session holds.
Selects(ud, text) ==
    /\ Has(ud, "device")
    /\ Has(ud, "boardconfig")
    /\ \E i \in DOMAIN ud["device"].firmwares :
          ud["device"].firmwares[i].version = text

\* The firmware it names: the first with this version.
Selected(ud, text) ==
    LET fws == ud["device"].firmwares
    IN  fws[CHOOSE i \in DOMAIN fws :
               /\ fws[i].version = text
               /\ \A j \in 1..(i - 1) : fws[j].version # text]

\* The firmware is served by the legacy direct-download origin.
Legacy(firmware) == urlparse(firmware.url).netloc = s_appldnld

\* C12: a firmware selection whose URL host is appldnld.apple.com makes
\* no direct fetch and goes through the extraction fallback, once.
Step_C12 ==
    LET ud == user_data[out'.conv] IN
    (/\ out'.handler = "on_text"
     /\ out'.state = FIRMWARE
     /\ Selects(ud, out'.text)
     /\ Legacy(Selected(ud, out'.text))) =>
        /\ out'.fetches = <<>>
        /\ out'.pzb_calls = 1
        /\ Sent(out', msg_extracting)

\* C12: every selection of a legacy-host firmware is resolved by
\* extraction, without a fetch of the sibling manifest URL.
Thm_C12 == [][Step_C12]_vars

\* A legacy-host firmware was reported: its manifest came from one run of
\* pzb and no fetch.
Wit_C12 ==
    /\ Sent(out, msg_report)
    /\ out.fetches = <<>>
    /\ out.pzb_calls = 1
    /\ out.popens = 1
    /\ out.replies[CHOOSE i \in Reports(out) : TRUE].format.buildid
          = html_escape(fw_legacy.buildid)

\* C13: a selection of a firmware with another host fetches the sibling
\* manifest URL once; when the fetch succeeds there is no extraction,
\* and a body that is no property list ends the call with the parse
\* failure; when it fails the extraction is entered once and pzb run at
\* most once.  No selection enters the extraction twice.
Step_C13 ==
    LET ud == user_data[out'.conv] IN
    (/\ out'.handler = "on_text"
     /\ out'.state = FIRMWARE
     /\ Selects(ud, out'.text)) =>
        /\ out'.pzb_calls <= 1
        /\ out'.popens <= out'.pzb_calls
        /\ ~Legacy(Selected(ud, out'.text)) =>
              /\ Len(out'.fetches) = 1
              /\ out'.fetches[1].url # Selected(ud, out'.text).url
              /\ out'.fetches[1].ok =>
                    /\ out'.pzb_calls = 0
                    /\ ~Sent(out', msg_extracting)
                    /\ Sent(out', msg_parse_failed) =>
                          (out'.raised /\ SentOnly(out', msg_parse_failed))
              /\ ~out'.fetches[1].ok =>
                    /\ out'.pzb_calls = 1
                    /\ Sent(out', msg_extracting)

\* C13: every firmware selection enters the extraction at most once:
\* once after a failed direct fetch, never after a successful one.
Thm_C13 == [][Step_C13]_vars

\* The direct fetch failed, pzb ran once and the firmware was reported.
Wit_C13 ==
    /\ Sent(out, msg_report)
    /\ Len(out.fetches) = 1
    /\ ~out.fetches[1].ok
    /\ out.pzb_calls = 1
    /\ out.popens = 1

\* C14 (as claimed): a call that ran pzb leaves the working directory of
\* the process where it was before, whichever way the extraction ended.
Step_C14 ==
    (out'.handler = "on_text" /\ out'.popens > 0) => cwd' = cwd

\* C14 (as claimed): every step that ran an extraction restored the
\* working directory.
Cex_C14 == [][Step_C14]_vars

\* C15 (as claimed): when pzb leaves no BuildManifest.plist, the failure
\* is reported and nothing is searched for a build identity.
Cex_C15 ==
    (out.handler = "on_text" /\ Sent(out, msg_extract_failed)) =>
        /\ out.queried = <<>>
        /\ ~Sent(out, msg_query_failed)

\* A component of a build identity, when listed, has a path.
HasPath(manifest, key) ==
    Has(manifest, key) =>
        (Has(manifest[key], "Info") /\ Has(manifest[key]["Info"], "Path"))

\* A build manifest as the query expects it: a list of build identities,
\* each with a board config and its components.
IsBuildManifest(m) ==
    /\ Has(m, "BuildIdentities")
    /\ \A i \in DOMAIN m["BuildIdentities"] :
          LET x == m["BuildIdentities"][i] IN
          /\ Has(x, "Info")
          /\ Has(x["Info"], "DeviceClass")
          /\ Has(x, "Manifest")
          /\ HasPath(x["Manifest"], "RestoreSEP")
          /\ HasPath(x["Manifest"], "BasebandFirmware")

\* C16: the search of a build manifest for the board config of the
\* session ends in a report of the paths of the first build identity, in
\* the order of the manifest, whose DeviceClass is the board config but
\* for case ("None" for a component it lacks), whatever is listed before
\* or after it; it fails exactly when no build identity matches.
Step_C16 ==
    (/\ out'.handler = "on_text"
     /\ out'.queried # <<>>
     /\ IsBuildManifest(out'.queried[1])) =>
        LET ids == out'.queried[1]["BuildIdentities"]
            bc  == user_data[out'.conv]["boardconfig"]
        IN  IF \E i \in DOMAIN ids : IsIdentityOf(ids[i], bc)
            THEN /\ ~out'.raised
                 /\ ~Sent(out', msg_query_failed)
                 /\ Cardinality(Reports(out')) = 1
                 /\ LET rep == out'.replies[CHOOSE i \in Reports(out') : TRUE].format
                        x   == FirstIdentityOf(ids, bc)
                    IN  /\ rep.sep_path = ReportedPath(x, "RestoreSEP")
                        /\ rep.bb_path = ReportedPath(x, "BasebandFirmware")
            ELSE /\ out'.raised
                 /\ Sent(out', msg_query_failed)
                 /\ ~Sent(out', msg_report)

\* C16: every search of a build manifest reports the first matching
\* build identity, and fails exactly when there is none.
Thm_C16 == [][Step_C16]_vars

\* The board config n2bap was found as the last of four build
\* identities, after three that do not match: a baseband and no SEP.
Wit_C16 ==
    /\ Sent(out, msg_report)
    /\ out.queried # <<>>
    /\ IsBuildManifest(out.queried[1])
    /\ Len(out.queried[1]["BuildIdentities"]) = 4
    /\ LET rep == out.replies[CHOOSE i \in Reports(out) : TRUE].format
       IN  /\ rep.boardconfig = board_n2b
           /\ rep.sep_path = s_None
           /\ rep.bb_path # s_None

\* C17: a session at FIRMWARE holds a device detail and a board config,
\* and no text sent to a session at DEVICE_MODEL, BOARD_CONFIG or
\* FIRMWARE is answered with the invalid-state notice of the FIRMWARE
\* branch or of show_firmware_menu.
Thm_C17 ==
    /\ \A c \in Convs :
          step(user_data[c]) = FIRMWARE =>
              (Has(user_data[c], "device") /\ Has(user_data[c], "boardconfig"))
    /\ (out.handler = "on_text"
        /\ out.state \in {DEVICE_MODEL, BOARD_CONFIG, FIRMWARE}) =>
            ~Sent(out, msg_invalid_state)

\* A text was handled by the FIRMWARE branch and left the session at
\* FIRMWARE, with the device detail and the board config chosen from a
\* board menu.
Wit_C17 ==
    /\ out.handler = "on_text"
    /\ out.state = FIRMWARE
    /\ step(user_data[out.conv]) = FIRMWARE
    /\ Has(user_data[out.conv], "device")
    /\ Has(user_data[out.conv], "boardconfig")
    /\ Len(user_data[out.conv]["device"].boards) > 2

\* The labels of the keyboard of a reply.
Offered(reply) ==
    IF reply.reply_markup.kind # "keyboard" THEN {}
    ELSE LET rows == reply.reply_markup.keyboard
         IN  UNION { { rows[r][k] : k \in DOMAIN rows[r] } : r \in DOMAIN rows }

\* C18 (as claimed): a firmware selection is resolved or reported only
\* for a signed firmware; the version of an unsigned firmware of the
\* device is answered with "Invalid input." and nothing else.
Step_C18 ==
    LET ud == user_data[out'.conv] IN
    (/\ out'.handler = "on_text"
     /\ out'.state = FIRMWARE
     /\ Selects(ud, out'.text)
     /\ ~Selected(ud, out'.text).signed) =>
        /\ SentOnly(out', msg_invalid_input)
        /\ out'.fetches = <<>>
        /\ out'.pzb_calls = 0

\* C18 (as claimed): every step that handles the version of an unsigned
\* firmware rejects it.
Cex_C18 == [][Step_C18]_vars

\* C18 (amended): the firmware menu offers the versions of the signed
\* firmwares of the device detail and no other; a text sent at FIRMWARE
\* is rejected exactly when it is the version of no firmware of the
\* device detail, signed or not; otherwise the first firmware with this
\* version is resolved, and a report is about it.
Step_C18_amended ==
    LET ud == user_data[out'.conv] IN
    /\ (out'.handler = "on_text" /\ Sent(out', msg_select_version)) =>
          LET fws == user_data'[out'.conv]["device"].firmwares
          IN  /\ SentOnly(out', msg_select_version)
              /\ Offered(out'.replies[1])
                    = { fws[i].version : i \in { k \in DOMAIN fws : fws[k].signed } }
    /\ (out'.handler = "on_text" /\ out'.state = FIRMWARE) =>
          IF Selects(ud, out'.text)
          THEN /\ ~Sent(out', msg_invalid_input)
               /\ out'.fetches # <<>> \/ out'.pzb_calls = 1
               /\ Sent(out', msg_report) =>
                     LET rep == out'.replies[CHOOSE i \in Reports(out') : TRUE].format
                     IN  /\ rep.firmware = html_escape(out'.text)
                         /\ rep.buildid
                               = html_escape(Selected(ud, out'.text).buildid)
          ELSE /\ SentOnly(out', msg_invalid_input)
               /\ out'.fetches = <<>>
               /\ out'.pzb_calls = 0

\* C18 (amended): every firmware menu offers the signed firmwares only,
\* and every text at FIRMWARE is looked up among all firmwares of the
\* device detail.
Thm_C18 == [][Step_C18_amended]_vars

\* The version 1.0 of an unsigned firmware, which the menu did not
\* offer, was sent at FIRMWARE and reported.
Wit_C18 ==
    /\ out.handler = "on_text"
    /\ out.state = FIRMWARE
    /\ out.text = fw_old.version
    /\ ~fw_old.signed
    /\ Sent(out, msg_report)
    /\ out.replies[CHOOSE i \in Reports(out) : TRUE].format.buildid
          = html_escape(fw_old.buildid)

\* The eligible board configs of a device detail.
EligibleBoardConfigs(device) ==
    { device.boards[i].boardconfig : i \in EligibleBoards(device) }

\* C19 (as claimed): a board config a session holds is an eligible board
\* config of the device detail the session holds.
Cex_C19 ==
    \A c \in Convs :
        Has(user_data[c], "boardconfig") =>
            /\ Has(user_data[c], "device")
            /\ user_data[c]["boardconfig"]
                  \in EligibleBoardConfigs(user_data[c]["device"])

\* C19 (amended), the board config held: it ends in "ap" but for case.
Inv_C19 ==
    \A c \in Convs :
        Has(user_data[c], "boardconfig") =>
            endswith(lower(user_data[c]["boardconfig"]), s_ap)

\* C19 (amended), the board config stored: a text sent at BOARD_CONFIG is
\* stored as the board config when it ends in "ap" but for case,
\* presented or not, and otherwise rejected with the board config as it
\* was; a device model accepted with one eligible board stores that
\* board.
Step_C19 ==
    LET ud  == user_data[out'.conv]
        ud1 == user_data'[out'.conv]
    IN  /\ (out'.handler = "on_text" /\ out'.state = BOARD_CONFIG) =>
              IF endswith(lower(out'.text), s_ap)
              THEN /\ ~Sent(out', msg_invalid_input)
                   /\ Entry(ud1, "boardconfig") = <<out'.text>>
                   /\ Entry(ud1, "device") = Entry(ud, "device")
              ELSE /\ SentOnly(out', msg_invalid_input)
                   /\ Entry(ud1, "boardconfig") = Entry(ud, "boardconfig")
        /\ (out'.handler = "on_text" /\ out'.state = DEVICE_MODEL
            /\ Entry(ud1, "boardconfig") # Entry(ud, "boardconfig")) =>
              /\ Has(ud1, "device")
              /\ EligibleBoardConfigs(ud1["device"]) = { ud1["boardconfig"] }

\* C19 (amended): a board config held ends in "ap"; it is the one
\* eligible board of a device detail or a text sent at BOARD_CONFIG.
Thm_C19 == []Inv_C19 /\ [][Step_C19]_vars

\* The text "zap", which is no board of the device detail, was sent at
\* BOARD_CONFIG and is held as the board config.
Wit_C19 ==
    /\ out.handler = "on_text"
    /\ out.state = BOARD_CONFIG
    /\ out.text = board_free
    /\ Has(user_data[out.conv], "device")
    /\ Entry(user_data[out.conv], "boardconfig") = <<board_free>>
    /\ board_free \notin EligibleBoardConfigs(user_data[out.conv]["device"])

\* The devices of the cached device list with this name, by position.
Named(bd, text) ==
    IF ~Has(bd, "devices") THEN {}
    ELSE { i \in DOMAIN bd["devices"] : bd["devices"][i].name = text }

\* The first of a nonempty set of positions.
First(positions) == CHOOSE i \in positions : \A j \in positions : i <= j

\* The last call accepted a device type and presented its devices.
PresentedDevices(o) ==
    /\ o.handler = "on_text"
    /\ o.state = DEVICE_TYPE
    /\ SentOnly(o, msg_select_device)

\* C20 (as claimed), for a device-model text that follows the choice of
\* the device type: it is accepted when it is the name of a presented
\* device, whose identifier starts with the code of the chosen type, and
\* rejected as invalid input otherwise.
Step_C20 ==
    (/\ PresentedDevices(out)
     /\ out'.handler = "on_text"
     /\ out'.state = DEVICE_MODEL
     /\ out'.conv = out.conv) =>
        IF out'.text \in Offered(out.replies[1])
        THEN /\ ~Sent(out', msg_invalid_input)
             /\ Len(out'.fetches) = 1
             /\ startswith(out'.fetches[1].url,
                           url_device(DEVICE_TYPES[out.text]))
        ELSE /\ SentOnly(out', msg_invalid_input)
             /\ out'.fetches = <<>>

\* C20 (as claimed): every device-model text is checked against the
\* devices of the chosen type.
Cex_C20 == [][Step_C20]_vars

\* C20 (amended): the device menu presents the devices of the cached
\* device list whose identifier starts with the code of the chosen type,
\* and the cached list is the whole list the catalog returned; a text at
\* DEVICE_MODEL is rejected exactly when no device of the cached list
\* has this name, and otherwise the detail of the first such device is
\* fetched, whatever its type.
Step_C20_amended ==
    /\ PresentedDevices(out') =>
          /\ Has(bot_data', "devices")
          /\ bot_data'["devices"] \in DeviceLists
          /\ LET all == bot_data'["devices"]
             IN  Offered(out'.replies[1])
                    = { all[i].name :
                          i \in { k \in DOMAIN all :
                                    startswith(all[k].identifier,
                                               DEVICE_TYPES[out'.text]) } }
    /\ (out'.handler = "on_text" /\ out'.state = DEVICE_MODEL) =>
          IF Named(bot_data, out'.text) = {}
          THEN /\ SentOnly(out', msg_invalid_input)
               /\ out'.fetches = <<>>
          ELSE /\ ~Sent(out', msg_invalid_input)
               /\ Len(out'.fetches) = 1
               /\ out'.fetches[1].url
                     = url_device(bot_data["devices"]
                                     [First(Named(bot_data, out'.text))].identifier)

\* C20 (amended): every device-model text is checked against the whole
\* cached device list.
Thm_C20 == [][Step_C20_amended]_vars

\* After the type iPad was chosen, the name of an iPhone was accepted
\* and its detail stored.
Wit_C20 ==
    /\ out.handler = "on_text"
    /\ out.state = DEVICE_MODEL
    /\ out.text = name_A
    /\ Has(user_data[out.conv], "device")
    /\ user_data[out.conv]["device"].identifier = id_iPhone1
    /\ Has(bot_data, "devices")
    /\ \A i \in DOMAIN bot_data["devices"] :
          bot_data["devices"][i].name = name_A =>
              ~startswith(bot_data["devices"][i].identifier, s_iPad)

\* C11 (as claimed): a handler call of one conversation leaves every
\* other conversation as if it had not happened: its session is as it
\* was, and each text it may send next at DEVICE_MODEL is accepted or
\* rejected as before, since the device list it is checked against is
\* still the one that conversation fetched.
Step_C11 ==
    \A d \in DOMAIN user_data :
        d # out'.conv =>
            /\ user_data'[d] = user_data[d]
            /\ step(user_data[d]) = DEVICE_MODEL =>
                  \A text \in Texts :
                      (Named(bot_data', text) = {}) <=> (Named(bot_data, text) = {})

\* C11 (as claimed): no step of a conversation changes what another
\* conversation holds or how its next input is answered.
Cex_C11 == [][Step_C11]_vars

====
